---- MODULE Spec2Model ----
(***************************************************************************)
(* Model of the API-key validator (src/src/App.tsx): the key extractor,    *)
(* the result table and the pausable / stoppable worker pool.              *)
(*                                                                         *)
(* JavaScript runs one task at a time, so every action below is the code   *)
(* that runs between two suspension points (await) of a handler or worker. *)
(* Table indices are 1-based here (0-based in the source).                 *)
(***************************************************************************)
EXTENDS Integers, Sequences, FiniteSets, TLC

\* ------------------------------------------------------------------ bounds
\* lines of text the operator may have typed when Start is clicked
MaxLines == 2
\* handleValidate calls that build a queue, in one behaviour
MaxRuns == 2
\* length of the file given to the chunked extractor
MaxFileLen == 6
\* chunk sizes tried by the chunked extractor
MaxChunk == 3
MaxFileLines == 3
MaxLineChunk == 6

\* ------------------------------------------------------------------ helpers
Min(a, b) == IF a < b THEN a ELSE b
Max(a, b) == IF a > b THEN a ELSE b

SeqToSet(s) == { s[n] : n \in 1..Len(s) }

NoDup(s) == \A m, n \in 1..Len(s) : m # n => s[m] # s[n]

\* ------------------------------------------------------------------ text
\* A text is a sequence of one-character strings.
NL == "\n"

\* the character class [a-zA-Z0-9_-] of the token pattern, over the alphabet used
TokenChars == {"s", "k", "-", "_", "a", "b"}

\* the literal prefix sk- followed by at least one class character, at position p
MatchesAt(text, p) ==
    /\ p + 3 <= Len(text)
    /\ text[p] = "s"
    /\ text[p + 1] = "k"
    /\ text[p + 2] = "-"
    /\ text[p + 3] \in TokenChars

\* last position of the greedy run of class characters that starts at p
RECURSIVE RunEnd(_, _)
RunEnd(text, p) ==
    IF p + 1 <= Len(text) /\ text[p + 1] \in TokenChars
    THEN RunEnd(text, p + 1)
    ELSE p

\* String.prototype.match(/sk-[a-zA-Z0-9_-]+/g): leftmost, greedy, non-overlapping
RECURSIVE MatchFrom(_, _)
MatchFrom(text, p) ==
    IF p > Len(text) THEN << >>
    ELSE IF MatchesAt(text, p)
         THEN << SubSeq(text, p, RunEnd(text, p + 3)) >>
                 \o MatchFrom(text, RunEnd(text, p + 3) + 1)
         ELSE MatchFrom(text, p + 1)

MatchAll(text) == MatchFrom(text, 1)

\* a set that keeps every value added to it
UniqueInto_appends(acc, xs) == acc \o xs

\* Array.from(new Set(xs)): first-seen order, duplicates dropped
RECURSIVE UniqueInto(_, _)
UniqueInto(acc, xs) ==
    IF xs = << >> THEN acc
    ELSE UniqueInto(IF Head(xs) \in SeqToSet(acc) THEN acc ELSE Append(acc, Head(xs)),
                    Tail(xs))

\* Array.from(xs): every match kept
Unique_keepsAll(xs) == xs

Unique(xs) == UniqueInto(<< >>, xs)

\* lines the operator types: two keys and a bare prefix that is no key
InputLines ==
    { <<"s", "k", "-", "a">>, <<"s", "k", "-", "b">>, <<"s", "k", "-">> }

RECURSIVE JoinLines(_)
JoinLines(ls) ==
    IF Len(ls) = 0 THEN << >>
    ELSE IF Len(ls) = 1 THEN ls[1]
    ELSE ls[1] \o <<NL>> \o JoinLines(Tail(ls))

\* contents of the text area when Start is clicked (never blank: the button is disabled)
InputTexts ==
    { JoinLines(ls) : ls \in UNION { [1..n -> InputLines] : n \in 1..MaxLines } }

\* Array.from(new Set(input.match(...) || [])) of every text, tabulated
UniqueKeysOf == [text \in InputTexts |-> Unique(MatchAll(text))]

\* values typed into, or saved from, the concurrency field
ConcurrencyInputs == {-1, 60}

\* parseInt(value) || 1
ParseOrOne(n) == IF n = 0 THEN 1 ELSE n

\* ------------------------------------------------------------------ state
VARIABLES
    results,      \* resultsRef.current: the result table
    status,       \* React state status: what the buttons show
    statusRef,    \* statusRef.current: what the workers read
    concurrencyLimit, \* React state concurrencyLimit
    runs,         \* the handleValidate calls that built a queue (see NewRun)
    file,         \* extractKeysFromText: the file's text
    chunkSize,    \* extractKeysFromText: CHUNK_SIZE
    offset,       \* extractKeysFromText: offset
    tail,         \* extractKeysFromText: tail
    keys,         \* extractKeysFromText: keys (insertion-ordered set)
    scanned,      \* extractKeysFromText: the portions handed to match so far
    xpc,          \* extractKeysFromText: position ("idle", "loop", "done")
    saved         \* localStorage item chatgpt_validator_results, as read at mount

schedVars == <<results, status, statusRef, concurrencyLimit, runs>>
extractVars == <<file, chunkSize, offset, tail, keys, scanned, xpc>>
vars == <<results, status, statusRef, concurrencyLimit, runs, file, chunkSize, offset, tail, keys, scanned, xpc, saved>>

NoErrorMsg == "<undefined>"
NoIndex == 0

\* messages of a rejected fetch / json promise
RejectMessages == {"Failed to fetch"}
\* error.message of the non-2xx bodies drawn (NoBodyMessage: the body has none,
\* or is not JSON)
NoBodyMessage == "<none>"
ErrorBodies == {NoBodyMessage}
\* the filtered, sorted model lists of the 2xx bodies drawn
ModelLists == { <<"gpt-4">> }

\* `HTTP ${response.status}` for the one non-2xx status drawn
HttpStatusMsg == "HTTP 401"

\* let errorMsg = `HTTP ...`; if the body has error.message, errorMsg = that
ErrorMsgOf(body) == IF body = NoBodyMessage THEN HttpStatusMsg ELSE body

PendingEntry(k) == [key |-> k, status |-> "pending", models |-> << >>, errorMsg |-> NoErrorMsg]

Live(w) == w.pc \notin {"exit", "crashed"}
InFlight(w) == w.pc \in {"fetch", "json_ok", "json_err"}


\* ------------------------------------------------------------------ seeding
Keys(res) == [n \in 1..Len(res) |-> res[n].key]

\* a keysMatch that compares the two sets of keys
KeysMatch_asSets(uniqueKeys, existingKeys) ==
    { uniqueKeys[n] : n \in 1..Len(uniqueKeys) }
        = { existingKeys[n] : n \in 1..Len(existingKeys) }

\* a keysMatch that compares the lengths only
KeysMatch_lengthOnly(uniqueKeys, existingKeys) == Len(uniqueKeys) = Len(existingKeys)

\* keysMatch: same length and the same key at every position
KeysMatch(uniqueKeys, existingKeys) ==
    /\ Len(uniqueKeys) = Len(existingKeys)
    /\ \A n \in 1..Len(uniqueKeys) : uniqueKeys[n] = existingKeys[n]

\* the table after the seeding step of handleValidate
Seed(res, uniqueKeys) ==
    IF KeysMatch(uniqueKeys, Keys(res))
    THEN res
    ELSE [n \in 1..Len(uniqueKeys) |-> PendingEntry(uniqueKeys[n])]

\* a filter that also re-queues invalid entries
Queueable_withInvalid(st) == st \in {"pending", "error", "invalid"}

\* the filter of the queue construction
Queueable(st) == st = "pending" \/ st = "error"

RECURSIVE QueueFrom(_, _)
QueueFrom(res, n) ==
    IF n > Len(res) THEN << >>
    ELSE (IF Queueable(res[n].status) THEN <<n>> ELSE << >>) \o QueueFrom(res, n + 1)

BuildQueue(res) == QueueFrom(res, 1)

\* a CONCURRENCY that takes the configured value as it is
Clamp_asConfigured(limit) == limit

\* CONCURRENCY = Math.max(1, Math.min(50, concurrencyLimit))
ConcurrencyMax == 50
ConcurrencyMin == 1
Clamp(limit) == Max(ConcurrencyMin, Min(ConcurrencyMax, limit))

\* one worker per queued index, whatever the limit
WorkerCount_perIndex(c, len) == len

\* concurrency = Math.min(CONCURRENCY, queue.length)
WorkerCount(c, len) == Min(c, len)

\* ------------------------------------------------------------------ worker
\* A worker step maps (table, run) to (table, run); w is the worker's slot.
\* stopSeen is history: Stop was signalled since the worker claimed its index,
\* or since it began to wait in the pause loop.
WorkerAt(pc, i) == [pc |-> pc, i |-> i, stopSeen |-> FALSE]

Out(res, run) == [res |-> res, run |-> run]

\* break: the worker's promise resolves
Exit(res, run, w) == Out(res, [run EXCEPT !.workers[w] = WorkerAt("exit", NoIndex)])

\* an access to resultsRef.current[i] past the table's end throws; thrown outside
\* try, or again inside catch, it rejects the worker's promise
Crash(res, run, w) == Out(res, [run EXCEPT !.workers[w] = WorkerAt("crashed", NoIndex)])

\* queue.shift() of the run's queue: the claimed index and what is left
\* a shift from the far end of the queue
ShiftHead_last(queue) == queue[Len(queue)]
ShiftHead(queue) == Head(queue)
\* a read of the head that leaves it in the queue
ShiftRest_peek(queue) == queue
ShiftRest(queue) == Tail(queue)

\* const i = queue.shift(); if undefined break; mark validating; call fetch
Shift(res, run, w) ==
    IF run.queue = << >> THEN Exit(res, run, w)
    ELSE LET i == ShiftHead(run.queue)
             run1 == [run EXCEPT !.queue = ShiftRest(@), !.taken = Append(@, i)]
         IN IF i > Len(res)
            THEN Crash(res, run1, w)
            ELSE Out([res EXCEPT ![i].status = "validating"],
                     [run1 EXCEPT !.workers[w] = WorkerAt("fetch", i)])

\* a loop top without the pause loop
LoopTop_ignoresPause(res, run, w, sref) ==
    IF run.queue = << >> \/ sref = "stopped" THEN Exit(res, run, w)
    ELSE Shift(res, run, w)

\* top of the worker's while loop up to its next await
LoopTop(res, run, w, sref) ==
    IF run.queue = << >> THEN Exit(res, run, w)
    ELSE IF sref = "stopped" THEN Exit(res, run, w)
    ELSE IF sref = "paused"
         THEN Out(res, [run EXCEPT !.workers[w] = WorkerAt("pausewait", NoIndex)])
         ELSE Shift(res, run, w)

\* a pause loop that never looks at statusRef again
PauseWake_sticks(res, run, w, sref) == Out(res, run)

\* the 200 ms timer of the pause loop fired
PauseWake(res, run, w, sref) ==
    IF sref = "stopped" THEN Exit(res, run, w)
    ELSE IF sref = "paused" THEN Out(res, run)
    ELSE Shift(res, run, w)

\* a catch block that records the error and leaves the loop
WriteError_aborts(res, run, w, msg) ==
    LET i == run.workers[w].i
    IN IF i > Len(res) THEN Crash(res, run, w)
       ELSE Exit([res EXCEPT ![i].status = "error", ![i].errorMsg = msg], run, w)

\* catch (error): status = 'error', errorMsg = error.message
WriteError(res, run, w, msg) ==
    LET i == run.workers[w].i
    IN IF i > Len(res) THEN Crash(res, run, w)
       ELSE Out([res EXCEPT ![i].status = "error", ![i].errorMsg = msg],
                [run EXCEPT !.workers[w] = WorkerAt("delay", NoIndex)])

\* response.ok, body parsed: status = 'valid', models = models
WriteValid(res, run, w, models) ==
    LET i == run.workers[w].i
    IN IF i > Len(res) THEN Crash(res, run, w)
       ELSE Out([res EXCEPT ![i].status = "valid", ![i].models = models],
                [run EXCEPT !.workers[w] = WorkerAt("delay", NoIndex)])

\* not response.ok: status = 'invalid', errorMsg = errorMsg
WriteInvalid(res, run, w, msg) ==
    LET i == run.workers[w].i
    IN IF i > Len(res) THEN Crash(res, run, w)
       ELSE Out([res EXCEPT ![i].status = "invalid", ![i].errorMsg = msg],
                [run EXCEPT !.workers[w] = WorkerAt("delay", NoIndex)])

\* the stop check after fetch: revert to pending and break
RevertPending(res, run, w) ==
    LET i == run.workers[w].i
    IN IF i > Len(res) THEN Crash(res, run, w)
       ELSE Exit([res EXCEPT ![i].status = "pending"], run, w)

\* a stop check that also treats paused as a signal to revert
AfterFetch_pauseCancels(res, run, w, sref, ok) ==
    IF sref \in {"stopped", "paused"} THEN RevertPending(res, run, w)
    ELSE Out(res, [run EXCEPT !.workers[w].pc = IF ok THEN "json_ok" ELSE "json_err"])

\* fetch resolved with a response (ok or not)
AfterFetch(res, run, w, sref, ok) ==
    IF sref = "stopped" THEN RevertPending(res, run, w)
    ELSE Out(res, [run EXCEPT !.workers[w].pc = IF ok THEN "json_ok" ELSE "json_err"])

\* workers.push(processNext()) for slots k..n: each runs to its first await
RECURSIVE Launch(_, _, _, _, _)
Launch(res, run, k, n, sref) ==
    IF k > n THEN Out(res, run)
    ELSE LET o == LoopTop(res, run, k, sref)
         IN Launch(o.res, o.run, k + 1, n, sref)

\* Promise.all(workers) has resolved: every worker's promise resolved
AllExited(run) == \A w \in 1..Len(run.workers) : run.workers[w].pc = "exit"


\* ------------------------------------------------------------------ operator actions
\* The state after construction and the mount effect: empty table, idle, the saved
\* concurrency, no run, extractor not started.
ExtractIdle ==
    /\ file = << >>
    /\ chunkSize = 1
    /\ offset = 0
    /\ tail = << >>
    /\ keys = << >>
    /\ scanned = << >>
    /\ xpc = "idle"

\* the item is absent (getItem gave null) or JSON.parse threw: ok is FALSE
NoSaved == [ok |-> FALSE, table |-> << >>]
NothingSaved == saved = NoSaved

SchedIdle ==
    /\ results = << >>
    /\ status = "idle"
    /\ statusRef = "idle"
    /\ concurrencyLimit \in { ParseOrOne(n) : n \in ConcurrencyInputs }
    /\ runs = << >>

Init == SchedIdle /\ ExtractIdle /\ NothingSaved

\* updateStatus(newStatus)
UpdateStatus(newStatus) ==
    /\ statusRef' = newStatus
    /\ status' = IF newStatus = "stopped" THEN "idle" ELSE newStatus

\* the forEach of handleStop
RevertValidating(res) ==
    [n \in 1..Len(res) |->
        IF res[n].status = "validating" THEN [res[n] EXCEPT !.status = "pending"] ELSE res[n]]

Validating(res) == { n \in 1..Len(res) : res[n].status = "validating" }

HasLive(run) == \E w \in 1..Len(run.workers) : Live(run.workers[w])

\* a handleValidate without the early return
NoKeys_never(uniqueKeys) == FALSE

\* if (uniqueKeys.length === 0) return
NoKeys(uniqueKeys) == Len(uniqueKeys) = 0

\* handleValidate on a text without a key: returns before touching anything
StartNoKeys(text) ==
    /\ status = "idle"
    /\ NoKeys(UniqueKeysOf[text])
    /\ UNCHANGED vars

\* The record of a run: queue, uniqueKeys, CONCURRENCY and the workers are the
\* closure of one handleValidate call; queue0, taken, stopped and atStop are history
\* (the queue as built, the indices shifted so far, whether Stop was signalled while
\* a worker was alive, and the entries that were validating at that Stop, kept
\* until the next Start).
NewRun(queue, uniqueKeys, c, n) ==
    [queue |-> queue, uniqueKeys |-> uniqueKeys, concurrency |-> c,
     workers |-> [k \in 1..n |-> WorkerAt("new", NoIndex)],
     queue0 |-> queue, taken |-> << >>, stopped |-> FALSE, atStop |-> {}]

\* A closure none of whose workers is alive is garbage. runs shows a finished run
\* as its last worker left it; the next step of anything replaces it by DeadRun.
DeadRun ==
    [queue |-> << >>, uniqueKeys |-> << >>, concurrency |-> 0, workers |-> << >>,
     queue0 |-> << >>, taken |-> << >>, stopped |-> FALSE, atStop |-> {}]

Prune(rs, keep) ==
    [q \in 1..Len(rs) |-> IF HasLive(rs[q]) \/ q = keep THEN rs[q] ELSE DeadRun]

AliveRuns == Prune(runs, 0)

\* history dropped at the next Start
ForgetStop(rs) == [q \in 1..Len(rs) |-> [rs[q] EXCEPT !.atStop = {}]]

\* handleValidate from idle: seed, build the queue, start the workers; every worker
\* runs synchronously to its first await, and an empty pool settles at once
Start(text) ==
    /\ status = "idle"
    /\ Len(runs) < MaxRuns
    /\ LET uniqueKeys == UniqueKeysOf[text]
           seeded == Seed(results, uniqueKeys)
           queue == BuildQueue(seeded)
           c == Clamp(concurrencyLimit)
           n == WorkerCount(c, Len(queue))
           o == Launch(seeded, NewRun(queue, uniqueKeys, c, n), 1, n, "running")
       IN /\ ~NoKeys(uniqueKeys)
          /\ results' = o.res
          /\ runs' = Append(ForgetStop(AliveRuns), o.run)
          /\ IF AllExited(o.run) THEN UpdateStatus("idle") ELSE UpdateStatus("running")
    /\ UNCHANGED concurrencyLimit
    /\ UNCHANGED <<extractVars, saved>>

\* onChange of the concurrency field (enabled while idle): parseInt(value) || 1
SetConcurrencyLimit(n) ==
    /\ status = "idle"
    /\ concurrencyLimit' = ParseOrOne(n)
    /\ runs' = AliveRuns
    /\ UNCHANGED <<results, status, statusRef>>
    /\ UNCHANGED <<extractVars, saved>>

\* a paused branch without its return: it goes on to build a queue from the
\* table and to start workers
Resume_fallsThrough ==
    /\ status = "paused"
    /\ UpdateStatus("running")
    /\ LET queue == BuildQueue(results)
           c == Clamp(concurrencyLimit)
           n == WorkerCount(c, Len(queue))
           o == Launch(results, NewRun(queue, Keys(results), c, n), 1, n, "running")
       IN /\ results' = o.res
          /\ runs' = Append(AliveRuns, o.run)
    /\ UNCHANGED concurrencyLimit
    /\ UNCHANGED <<extractVars, saved>>

\* handleValidate while paused
Resume ==
    /\ status = "paused"
    /\ UpdateStatus("running")
    /\ runs' = AliveRuns
    /\ UNCHANGED <<results, concurrencyLimit>>
    /\ UNCHANGED <<extractVars, saved>>

\* handlePause (the button is shown while status is running)
Pause ==
    /\ status = "running"
    /\ UpdateStatus("paused")
    /\ runs' = AliveRuns
    /\ UNCHANGED <<results, concurrencyLimit>>
    /\ UNCHANGED <<extractVars, saved>>

\* history kept at Stop
NoteStop(run, res) ==
    IF ~HasLive(run) THEN run
    ELSE [run EXCEPT !.stopped = TRUE,
                     !.atStop = @ \cup Validating(res),
                     !.workers = [w \in 1..Len(run.workers) |->
                                     IF InFlight(run.workers[w])
                                            \/ run.workers[w].pc = "pausewait"
                                     THEN [run.workers[w] EXCEPT !.stopSeen = TRUE]
                                     ELSE run.workers[w]]]

\* handleStop (the button is shown while status is running or paused)
Stop ==
    /\ status # "idle"
    /\ UpdateStatus("stopped")
    /\ results' = RevertValidating(results)
    /\ runs' = [r \in 1..Len(AliveRuns) |-> NoteStop(AliveRuns[r], results)]
    /\ UNCHANGED concurrencyLimit
    /\ UNCHANGED <<extractVars, saved>>

\* handleClear (the button is enabled while idle with something to clear)
Clear ==
    /\ status = "idle"
    /\ results # << >>
    /\ results' = << >>
    /\ runs' = AliveRuns
    /\ UNCHANGED <<status, statusRef, concurrencyLimit>>
    /\ UNCHANGED <<extractVars, saved>>

\* ------------------------------------------------------------------ worker actions
\* One continuation of worker w of run r; when it was the last worker to exit,
\* the rest of handleValidate runs in the same task.
WorkerStep(r, w, o) ==
    /\ results' = o.res
    /\ runs' = Prune([runs EXCEPT ![r] = o.run], r)
    /\ IF o.run.workers[w].pc = "exit" /\ AllExited(o.run) /\ statusRef # "stopped"
       THEN UpdateStatus("idle")
       ELSE UNCHANGED <<status, statusRef>>
    /\ UNCHANGED concurrencyLimit
    /\ UNCHANGED <<extractVars, saved>>

\* fetch rejected
FetchReject(r, w) ==
    /\ runs[r].workers[w].pc = "fetch"
    /\ \E msg \in RejectMessages : WorkerStep(r, w, WriteError(results, runs[r], w, msg))

\* fetch resolved with a response
FetchResponse(r, w) ==
    /\ runs[r].workers[w].pc = "fetch"
    /\ \E ok \in BOOLEAN : WorkerStep(r, w, AfterFetch(results, runs[r], w, statusRef, ok))

\* response.json() of a 2xx response resolved
JsonOk(r, w) ==
    /\ runs[r].workers[w].pc = "json_ok"
    /\ \E models \in ModelLists : WorkerStep(r, w, WriteValid(results, runs[r], w, models))

\* response.json() of a 2xx response rejected, or its data has no list
JsonOkReject(r, w) ==
    /\ runs[r].workers[w].pc = "json_ok"
    /\ \E msg \in RejectMessages : WorkerStep(r, w, WriteError(results, runs[r], w, msg))

\* response.json() of a non-2xx response settled: error.message, or HTTP <status>
JsonErr(r, w) ==
    /\ runs[r].workers[w].pc = "json_err"
    /\ \E body \in ErrorBodies :
          WorkerStep(r, w, WriteInvalid(results, runs[r], w, ErrorMsgOf(body)))

\* the 300 ms delay elapsed
Delay(r, w) ==
    /\ runs[r].workers[w].pc = "delay"
    /\ WorkerStep(r, w, LoopTop(results, runs[r], w, statusRef))

\* the 200 ms pause poll elapsed
PauseWait(r, w) ==
    /\ runs[r].workers[w].pc = "pausewait"
    /\ WorkerStep(r, w, PauseWake(results, runs[r], w, statusRef))

WorkerNext ==
    \E r \in 1..Len(runs) : \E w \in 1..Len(runs[r].workers) :
        \/ FetchReject(r, w)
        \/ FetchResponse(r, w)
        \/ JsonOk(r, w)
        \/ JsonOkReject(r, w)
        \/ JsonErr(r, w)
        \/ Delay(r, w)
        \/ PauseWait(r, w)

StartNext == \E text \in InputTexts : Start(text)

SetConcurrencyLimitNext == \E n \in ConcurrencyInputs : SetConcurrencyLimit(n)

StartNoKeysNext == \E text \in InputTexts : StartNoKeys(text)

Next ==
    \/ StartNext
    \/ StartNoKeysNext
    \/ SetConcurrencyLimitNext
    \/ Resume
    \/ Pause
    \/ Stop
    \/ Clear
    \/ WorkerNext

Spec == Init /\ [][Next]_vars

\* Behaviours in which the operator never presses Stop.
NextNoStop ==
    \/ StartNext
    \/ StartNoKeysNext
    \/ SetConcurrencyLimitNext
    \/ Resume
    \/ Pause
    \/ Clear
    \/ WorkerNext

SpecNoStop == Init /\ [][NextNoStop]_vars


\* Fair scheduling of the run without Stop: every call settles and every timer
\* fires (each worker's continuation runs if it is enabled again and again), and
\* a paused run is resumed.
WorkerAct(r, w) ==
    /\ r \in 1..Len(runs)
    /\ w \in 1..Len(runs[r].workers)
    /\ \/ FetchReject(r, w)
       \/ FetchResponse(r, w)
       \/ JsonOk(r, w)
       \/ JsonOkReject(r, w)
       \/ JsonErr(r, w)
       \/ Delay(r, w)
       \/ PauseWait(r, w)

SpecLive ==
    /\ Init
    /\ [][NextNoStop]_vars
    /\ \A r \in 1..MaxRuns : \A w \in 1..MaxLines : SF_vars(WorkerAct(r, w))
    /\ WF_vars(Resume)

\* The run without Stop, from every saved concurrency of SavedConcurrency:
\* values below, at, inside and above the range 1..50.
SavedConcurrency == {-1, 0, 1, 2, 50, 51, 60}

InitSaved ==
    /\ results = << >>
    /\ status = "idle"
    /\ statusRef = "idle"
    /\ concurrencyLimit \in { ParseOrOne(n) : n \in SavedConcurrency }
    /\ runs = << >>
    /\ ExtractIdle
    /\ NothingSaved

SpecSaved == InitSaved /\ [][NextNoStop]_vars

\* ------------------------------------------------------------------ load effect
\* parsed.map(r => r.status === 'validating' ? {...r, status: 'pending'} : r),
\* with the whole table kept as it was saved
LoadResults_asSaved(parsed) == parsed

\* parsed.map(r => r.status === 'validating' ? {...r, status: 'pending'} : r)
LoadResults(parsed) ==
    [n \in 1..Len(parsed) |->
        IF parsed[n].status = "validating"
        THEN [parsed[n] EXCEPT !.status = "pending"]
        ELSE parsed[n]]

\* the entries a saved table may hold: any status with any models and message
SavedKeys == {<<"s", "k", "-", "a">>, <<"s", "k", "-", "b">>}
SavedEntries ==
    [key : SavedKeys,
     status : {"pending", "validating", "valid", "invalid", "error"},
     models : ModelLists \cup {<< >>},
     errorMsg : RejectMessages \cup {HttpStatusMsg, NoErrorMsg}]

\* saved tables of up to MaxLines entries with distinct credentials
SavedTables ==
    { t \in UNION { [1..n -> SavedEntries] : n \in 0..MaxLines } : NoDup(Keys(t)) }

\* the page as mounted, before the load effect has run
InitLoad ==
    /\ SchedIdle
    /\ ExtractIdle
    /\ saved \in {NoSaved} \cup { [ok |-> TRUE, table |-> t] : t \in SavedTables }

\* the load effect: if (savedResults) try { resultsRef.current = parsed.map(...) }
\* catch {}; it runs once, at mount
Load ==
    /\ results = << >>
    /\ runs = << >>
    /\ saved.ok
    /\ saved.table # << >>
    /\ results' = LoadResults(saved.table)
    /\ UNCHANGED <<status, statusRef, concurrencyLimit, runs>>
    /\ UNCHANGED <<extractVars, saved>>

SpecLoad == InitLoad /\ [][Load]_vars

\* ------------------------------------------------------------------ extractor
\* extractKeysFromText(file), one action per pass of its loop. CHUNK_SIZE is
\* 10 MB in the source; here it is drawn from 1..MaxChunk and the file from the
\* texts of at most MaxFileLen characters, so that chunk boundaries fall
\* everywhere. Positions are 1-based (0-based in the source).
FileChars == {"s", "k", "-", NL}

Files == UNION { [1..n -> FileChars] : n \in 0..MaxFileLen }

\* processText.lastIndexOf('\n') + 1: the last position of a newline, 0 if none
RECURSIVE LastIndexOf(_, _, _)
LastIndexOf(text, c, p) ==
    IF p = 0 THEN 0
    ELSE IF text[p] = c THEN p
    ELSE LastIndexOf(text, c, p - 1)

\* file.slice(offset, offset + CHUNK_SIZE)
Slice(f, from, size) == SubSeq(f, from + 1, Min(from + size, Len(f)))

\* the call: keys = new Set(), offset = 0, tail = ''
InitExtract ==
    /\ SchedIdle
    /\ NothingSaved
    /\ file \in Files
    /\ chunkSize \in 1..MaxChunk
    /\ offset = 0
    /\ tail = << >>
    /\ keys = << >>
    /\ scanned = << >>
    /\ xpc = "loop"

\* a carried tail that starts after the newline
HeldTail_afterNewline(processText, lastNewline) ==
    SubSeq(processText, lastNewline + 2, Len(processText))

\* tail = processText.substring(lastNewline): the newline and what follows it
HeldTail(processText, lastNewline) ==
    SubSeq(processText, lastNewline + 1, Len(processText))

\* one pass of while (offset < file.size)
ExtractChunk ==
    /\ xpc = "loop"
    /\ offset < Len(file)
    /\ LET processText == tail \o Slice(file, offset, chunkSize)
           lastNewline == LastIndexOf(processText, NL, Len(processText)) - 1
           hold == lastNewline > 0 /\ offset + chunkSize < Len(file)
           currentChunk == IF hold THEN SubSeq(processText, 1, lastNewline)
                                   ELSE processText
       IN /\ tail' = IF hold THEN HeldTail(processText, lastNewline) ELSE << >>
          /\ keys' = UniqueInto(keys, MatchAll(currentChunk))
          /\ scanned' = Append(scanned, currentChunk)
    /\ offset' = offset + chunkSize
    /\ UNCHANGED <<file, chunkSize, xpc>>
    /\ UNCHANGED <<schedVars, saved>>

\* after the loop: if (tail) scan it; return Array.from(keys)
ExtractFinish ==
    /\ xpc = "loop"
    /\ offset >= Len(file)
    /\ keys' = IF tail # << >> THEN UniqueInto(keys, MatchAll(tail)) ELSE keys
    /\ scanned' = IF tail # << >> THEN Append(scanned, tail) ELSE scanned
    /\ xpc' = "done"
    /\ UNCHANGED <<file, chunkSize, offset, tail>>
    /\ UNCHANGED <<schedVars, saved>>

NextExtract ==
    \/ ExtractChunk
    \/ ExtractFinish

SpecExtract == InitExtract /\ [][NextExtract]_vars

\* The extractor on files made of lines, in which a token can occur more than
\* once, with CHUNK_SIZE from 1 to MaxLineChunk: some files are scanned in
\* one piece, some are cut inside a token, some between two lines.
LineFiles ==
    { JoinLines(ls) : ls \in UNION { [1..n -> InputLines] : n \in 1..MaxFileLines } }

InitExtractLines ==
    /\ SchedIdle
    /\ NothingSaved
    /\ file \in LineFiles
    /\ chunkSize \in 1..MaxLineChunk
    /\ offset = 0
    /\ tail = << >>
    /\ keys = << >>
    /\ scanned = << >>
    /\ xpc = "loop"

SpecExtractLines == InitExtractLines /\ [][NextExtract]_vars

\* ------------------------------------------------------------------ claims
RunIds == 1..Len(runs)
WorkerIds(r) == 1..Len(runs[r].workers)

Finished(r) == runs[r] # DeadRun /\ ~HasLive(runs[r])

\* worker w of run r takes a step: only a worker's own continuation moves its pc
Steps(r, w) ==
    /\ HasLive(runs[r])
    /\ runs'[r].workers[w].pc # runs[r].workers[w].pc

\* a fresh run is started in this step
Starts == Len(runs') = Len(runs) + 1

NewestRun == runs'[Len(runs')]

\* C1: within one run, with Pause and Resume but no Stop, the number of entries
\* that are validating never exceeds min(C, L): C the configured concurrency
\* clamped to [1,50], L the length of the queue built at Start.
C1_ConcurrencyBound ==
    \A r \in RunIds :
        HasLive(runs[r]) =>
            Cardinality(Validating(results))
                <= Min(Max(1, Min(50, concurrencyLimit)), Len(runs[r].queue0))

\* a run whose queue of two is served by one worker (limit -1 clamped to 1), the
\* second index in flight while the run is paused
C1_Witness ==
    \E r \in RunIds :
        /\ concurrencyLimit < 1
        /\ runs[r].queue0 = <<1, 2>>
        /\ runs[r].taken = <<1, 2>>
        /\ Cardinality(Validating(results)) = 1
        /\ statusRef = "paused"

\* C2: in every reachable state, whatever the operator did (Start, Pause, Resume,
\* Stop, Start again), at most clamp(concurrency) entries are validating.
C2_GlobalBound ==
    \A r \in RunIds :
        HasLive(runs[r]) =>
            Cardinality(Validating(results))
                <= Max(runs[r].concurrency, Max(1, Min(50, concurrencyLimit)))

\* C3: in one run no index is shifted from the queue twice, by the same or by
\* two workers.
C3_NoDuplicateDequeue ==
    \A r \in RunIds : NoDup(runs[r].taken)

\* two workers of one run hold the two indices of its queue
C3_Witness ==
    \E r \in RunIds :
        /\ Len(runs[r].workers) = 2
        /\ runs[r].taken = <<1, 2>>
        /\ runs[r].workers[1].pc = "fetch" /\ runs[r].workers[1].i = 1
        /\ runs[r].workers[2].pc = "fetch" /\ runs[r].workers[2].i = 2

\* C4: when every worker of a run has exited and no Stop was signalled during
\* the run, its queue is empty and every index it queued (and that the table still
\* has) is valid, invalid or error.
C4_NoIndexSkipped ==
    \A r \in RunIds :
        (Finished(r) /\ AllExited(runs[r]) /\ ~runs[r].stopped) =>
            /\ runs[r].queue = << >>
            /\ \A n \in 1..Len(runs[r].queue0) :
                  LET i == runs[r].queue0[n]
                  IN i <= Len(results) =>
                         results[i].status \in {"valid", "invalid", "error"}


\* C5: once Stop was signalled and every worker of the stopped run has exited
\* (and before the operator starts anything else), no entry is validating and
\* every entry that was validating at the Stop is pending.
C5_StopSafety ==
    \A r \in RunIds :
        (Finished(r) /\ runs[r].stopped /\ statusRef = "stopped") =>
            /\ Validating(results) = {}
            /\ \A i \in runs[r].atStop :
                  i <= Len(results) => results[i].status = "pending"

\* C6: a worker whose call was in flight when Stop was signalled writes no
\* outcome: when its call settles, its entry is pending.
C6_StopDiscardsResponse ==
    [][ \A r \in RunIds : \A w \in WorkerIds(r) :
          LET wk == runs[r].workers[w]
          IN (Steps(r, w) /\ InFlight(wk) /\ wk.stopSeen
                  /\ ~InFlight(runs'[r].workers[w]) /\ wk.i <= Len(results'))
                 => results'[wk.i].status = "pending" ]_vars

\* C7: after Stop was signalled for a run, no worker of that run shifts another
\* index from its queue, whatever the operator does next.
C7_NoDequeueAfterStop ==
    [][ \A r \in RunIds :
          (HasLive(runs[r]) /\ runs[r].stopped) => runs'[r].taken = runs[r].taken ]_vars


\* C8: for every file and every chunk size, the chunked extractor returns the
\* same set of tokens as the token pattern applied to the whole text at once.
C8_ChunkedEqualsWhole ==
    xpc = "done" => SeqToSet(keys) = SeqToSet(MatchAll(file))

\* C9: a Start whose credential sequence equals the table's leaves every key,
\* model list and message as it was and changes no status except to mark the
\* indices its workers claim; its queue holds only indices that were pending or
\* error; and no worker of a run changes an entry outside the queue built at
\* its Start, so the entries then valid or invalid stay untouched by that run.
C9_ResumeCorrectness ==
    [][ /\ (Starts /\ NewestRun.uniqueKeys = Keys(results)) =>
              /\ Len(results') = Len(results)
              /\ \A i \in 1..Len(results) :
                    /\ results'[i].key = results[i].key
                    /\ results'[i].models = results[i].models
                    /\ results'[i].errorMsg = results[i].errorMsg
                    /\ results'[i].status =
                          IF i \in SeqToSet(NewestRun.taken)
                          THEN "validating" ELSE results[i].status
              /\ \A n \in 1..Len(NewestRun.queue0) :
                    results[NewestRun.queue0[n]].status \in {"pending", "error"}
              /\ SeqToSet(NewestRun.taken) \subseteq SeqToSet(NewestRun.queue0)
        /\ \A r \in RunIds : \A w \in WorkerIds(r) :
              Steps(r, w) =>
                  \A i \in 1..Len(results) :
                      (i > Len(results') \/ results'[i] # results[i])
                          => i \in SeqToSet(runs[r].queue0) ]_vars

\* a second run on the unchanged table: entry 1 is valid and was not queued,
\* entry 2 was queued and is in flight; the first run is over
C9_Witness ==
    /\ Len(runs) = 2
    /\ runs[1] = DeadRun
    /\ runs[2].uniqueKeys = Keys(results)
    /\ runs[2].queue0 = <<2>>
    /\ results[1].status = "valid"
    /\ results[2].status = "validating"
    /\ results[2].errorMsg # NoErrorMsg

\* C10: a Start whose credential sequence differs from the table's rebuilds the
\* table: one entry per credential, in order, with no models and no message,
\* pending unless a worker of the new run has already claimed it.
C10_ReseedCorrectness ==
    [][ (Starts /\ NewestRun.uniqueKeys # Keys(results)) =>
            /\ Len(results') = Len(NewestRun.uniqueKeys)
            /\ \A n \in 1..Len(results') :
                  /\ results'[n].key = NewestRun.uniqueKeys[n]
                  /\ results'[n].models = << >>
                  /\ results'[n].errorMsg = NoErrorMsg
                  /\ results'[n].status =
                        IF n \in SeqToSet(NewestRun.taken)
                        THEN "validating" ELSE "pending" ]_vars

\* the table of two was replaced by a table of one while a worker of the first
\* run is still alive
C10_Witness ==
    /\ Len(runs) = 2
    /\ HasLive(runs[1])
    /\ Len(runs[1].uniqueKeys) = 2
    /\ Len(runs[2].uniqueKeys) = 1
    /\ runs[2].uniqueKeys[1] = runs[1].uniqueKeys[2]
    /\ Keys(results) = runs[2].uniqueKeys
    /\ results[1].status = "validating"

\* C11 (as stated): a Start whose set of credentials equals the set of the
\* table's credentials, a reordering included, preserves the table: keys, model
\* lists and messages stay, and so does every status but those its workers claim.
C11_SetPreserves ==
    [][ (Starts /\ SeqToSet(NewestRun.uniqueKeys) = SeqToSet(Keys(results))) =>
            /\ Keys(results') = Keys(results)
            /\ \A i \in 1..Len(results) :
                  /\ results'[i].models = results[i].models
                  /\ results'[i].errorMsg = results[i].errorMsg
                  /\ results'[i].status =
                        IF i \in SeqToSet(NewestRun.taken)
                        THEN "validating" ELSE results[i].status ]_vars

\* C11 (amended): the comparison is of sequences. After every Start the table's
\* keys are the incoming sequence; a Start with the table's own sequence keeps
\* every model list and message, and a Start with any other sequence, a
\* reordering of the table's included, leaves no entry with an earlier outcome.
C11_SequenceRebuild ==
    [][ Starts =>
            /\ Keys(results') = NewestRun.uniqueKeys
            /\ NewestRun.uniqueKeys = Keys(results) =>
                  \A i \in 1..Len(results) :
                      /\ results'[i].models = results[i].models
                      /\ results'[i].errorMsg = results[i].errorMsg
            /\ NewestRun.uniqueKeys # Keys(results) =>
                  \A i \in 1..Len(results') :
                      /\ results'[i].models = << >>
                      /\ results'[i].errorMsg = NoErrorMsg
                      /\ results'[i].status \in {"pending", "validating"} ]_vars

\* the table of the first run, still alive, was replaced by its reordering
C11_Witness ==
    /\ Len(runs) = 2
    /\ HasLive(runs[1])
    /\ Len(runs[1].uniqueKeys) = 2
    /\ runs[2].uniqueKeys = << runs[1].uniqueKeys[2], runs[1].uniqueKeys[1] >>
    /\ Keys(results) = runs[2].uniqueKeys
    /\ \A i \in 1..Len(results) : results[i].status \in {"pending", "validating"}

\* C12: while the table is not rebuilt or cleared, every change of an entry's
\* status is pending->validating, validating->valid/invalid/error,
\* error->pending or validating->pending. (A Start claims indices in the step
\* that seeds, so in a Start step error->validating counts as error->pending
\* followed by pending->validating.)
C12_StatusTransitions ==
    [][ Keys(results') = Keys(results) =>
            \A i \in 1..Len(results) :
                LET from == results[i].status
                    to == results'[i].status
                IN
                \/ to = from
                \/ from = "pending" /\ to = "validating"
                \/ from = "validating" /\ to \in {"valid", "invalid", "error", "pending"}
                \/ from = "error" /\ to = "pending"
                \/ /\ Starts
                   /\ results[i].status = "error"
                   /\ results'[i].status = "validating" ]_vars

\* C13: valid and invalid are terminal: while the table is not rebuilt or
\* cleared, no step changes the status, the model list or the message of an
\* entry that is valid or invalid.
C13_TerminalOutcomes ==
    [][ Keys(results') = Keys(results) =>
            \A i \in 1..Len(results) :
                results[i].status \in {"valid", "invalid"} =>
                    results'[i] = results[i] ]_vars

\* C14: in every state an entry has a message only if it is invalid or error.
C14_ErrorMsgOnlyOnFailure ==
    \A i \in 1..Len(results) :
        results[i].errorMsg # NoErrorMsg => results[i].status \in {"invalid", "error"}

\* C15: in every state an entry has a non-empty model list only if it is valid.
C15_ModelsOnlyOnValid ==
    \A i \in 1..Len(results) :
        results[i].models # << >> => results[i].status = "valid"

\* C16: in a step taken while statusRef is paused no live run's queue changes,
\* no index is shifted, and no entry goes from pending or error to validating.
C16_NoDequeueWhilePaused ==
    [][ statusRef = "paused" =>
            /\ \A r \in RunIds :
                  HasLive(runs[r]) =>
                      /\ runs'[r].queue = runs[r].queue
                      /\ runs'[r].taken = runs[r].taken
            /\ Len(results') = Len(results)
            /\ \A i \in 1..Len(results) :
                  results[i].status \in {"pending", "error"} =>
                      results'[i].status # "validating" ]_vars

\* paused, with a worker waiting in the pause loop in front of a queued index
\* that is still pending
C16_Witness ==
    /\ statusRef = "paused"
    /\ \E r \in RunIds : \E w \in WorkerIds(r) :
          /\ runs[r].workers[w].pc = "pausewait"
          /\ runs[r].queue # << >>
          /\ Head(runs[r].queue) <= Len(results)
          /\ results[Head(runs[r].queue)].status = "pending"

\* C17: a call that settles while statusRef is paused is not cancelled: its
\* worker writes valid, invalid or error to its entry (never pending) and goes
\* on to its delay.
C17_PauseKeepsInFlight ==
    [][ \A r \in RunIds : \A w \in WorkerIds(r) :
          LET wk == runs[r].workers[w]
          IN (statusRef = "paused" /\ Steps(r, w) /\ InFlight(wk)
                  /\ wk.i <= Len(results)) =>
                 \/ /\ InFlight(runs'[r].workers[w])
                    /\ results'[wk.i] = results[wk.i]
                 \/ /\ runs'[r].workers[w].pc = "delay"
                    /\ results'[wk.i].status \in {"valid", "invalid", "error"} ]_vars

\* paused, the first call of a run has settled and written valid, its worker is
\* in its delay and the second index is still queued and pending
C17_Witness ==
    /\ statusRef = "paused"
    /\ \E r \in RunIds :
          /\ runs[r].taken = <<1>>
          /\ runs[r].queue = <<2>>
          /\ runs[r].workers[1].pc = "delay"
          /\ results[1].status = "valid"
          /\ results[2].status = "pending"

\* C18: the step that takes statusRef from paused to running (Start pressed
\* while paused) changes nothing else: the table, the concurrency limit and
\* every live run, with its queue and its workers, are as before, and no run
\* is added.
C18_ResumeFrame ==
    [][ (statusRef = "paused" /\ statusRef' = "running") =>
            /\ status' = "running"
            /\ results' = results
            /\ concurrencyLimit' = concurrencyLimit
            /\ Len(runs') = Len(runs)
            /\ \A r \in RunIds : HasLive(runs[r]) => runs'[r] = runs[r] ]_vars

\* resumed: running again while a worker is still in the pause loop, in front
\* of the queue it had before
C18_Witness ==
    /\ statusRef = "running"
    /\ \E r \in RunIds : \E w \in WorkerIds(r) :
          /\ runs[r].workers[w].pc = "pausewait"
          /\ runs[r].queue # << >>
          /\ runs[r].queue = SubSeq(runs[r].queue0, Len(runs[r].taken) + 1,
                                    Len(runs[r].queue0))

\* C19: with no Stop, every call settling, every timer firing and every pause
\* resumed, a run that is not idle leads to a state where no worker of any run
\* is alive and statusRef is idle.
C19_RunCompletes ==
    (statusRef # "idle") ~>
        (statusRef = "idle" /\ \A r \in RunIds : ~HasLive(runs[r]))

\* a run of two indices, served by one worker, has just ended: its worker has
\* exited, both entries have an outcome, and statusRef is idle
C19_Witness ==
    /\ statusRef = "idle"
    /\ \E r \in RunIds :
          /\ Finished(r)
          /\ AllExited(runs[r])
          /\ Len(runs[r].workers) = 1
          /\ runs[r].taken = <<1, 2>>
          /\ \A i \in 1..2 : results[i].status \in {"valid", "invalid", "error"}

\* C20: when every worker of a stopped run has exited, and with it the rest of
\* its handleValidate has run, and no other run is alive, the statusRef the
\* workers read is idle, not stopped.
C20_StoppedSettlesToIdle ==
    \A r \in RunIds :
        (Finished(r) /\ AllExited(runs[r]) /\ runs[r].stopped
             /\ \A q \in RunIds : ~HasLive(runs[q]))
            => statusRef = "idle"

\* C21: a worker that was waiting in the pause loop when Stop was signalled
\* leaves the loop by exiting, and shifts no index, whatever the operator did
\* in between. (With the 200 ms timer firing, this is the claim that such a
\* worker eventually exits without dequeuing.)
C21_PauseWaitExitsOnStop ==
    [][ \A r \in RunIds : \A w \in WorkerIds(r) :
          LET wk == runs[r].workers[w]
          IN (wk.pc = "pausewait" /\ wk.stopSeen /\ Steps(r, w)) =>
                 /\ runs'[r].workers[w].pc = "exit"
                 /\ runs'[r].taken = runs[r].taken ]_vars

\* C22: every Start that builds a queue of L indices starts exactly
\* min(c, L) workers, where c is the configured concurrency, taken as 1 when
\* it is below 1 and as 50 when it is above 50; each of them claims an index
\* (none fails), and a non-empty queue gets at least one worker.
C22_WorkerCount ==
    [][ Starts =>
            LET c == IF concurrencyLimit < 1 THEN 1
                     ELSE IF concurrencyLimit > 50 THEN 50
                     ELSE concurrencyLimit
                L == Len(NewestRun.queue0)
                n == IF c < L THEN c ELSE L
            IN /\ NewestRun.concurrency = c
               /\ Len(NewestRun.workers) = n
               /\ L > 0 => n >= 1
               /\ \A w \in 1..n : NewestRun.workers[w].pc = "fetch" ]_vars

\* configured 51, taken as 50: a queue of two got two workers
C22_Witness ==
    /\ concurrencyLimit = 51
    /\ \E r \in RunIds :
          /\ runs[r].concurrency = 50
          /\ Len(runs[r].queue0) = 2
          /\ Len(runs[r].workers) = 2

\* C23: the queue built at Start holds exactly the indices whose entry is
\* pending or error once the table is seeded, in ascending order; and a run
\* hands its indices out from the front: what it has claimed so far, followed
\* by what is left, is the queue as built, and every index a worker claims is
\* marked validating in the same step (if the table still has that index), so
\* of two queued indices the lower one is validating first.
C23_QueueOrderFifo ==
    [][ /\ Starts =>
              LET q == NewestRun.queue0
                  same == NewestRun.uniqueKeys = Keys(results)
                  seededStatus(i) == IF same THEN results[i].status ELSE "pending"
              IN /\ SeqToSet(q) = { i \in 1..Len(results') :
                                      seededStatus(i) \in {"pending", "error"} }
                 /\ \A a \in 1..Len(q) : \A b \in 1..Len(q) : a < b => q[a] < q[b]
                 /\ \A n \in 1..Len(NewestRun.taken) :
                       results'[NewestRun.taken[n]].status = "validating"
        /\ \A r \in 1..Len(runs') :
              /\ runs'[r].taken \o runs'[r].queue = runs'[r].queue0
              /\ (r \in RunIds /\ Len(runs'[r].taken) > Len(runs[r].taken)) =>
                    /\ Len(runs'[r].taken) = Len(runs[r].taken) + 1
                    /\ LET i == runs'[r].taken[Len(runs'[r].taken)]
                       IN /\ i = Head(runs[r].queue)
                          /\ i <= Len(results') => results'[i].status = "validating" ]_vars

\* one worker took index 1, settled it, and then took index 2
C23_Witness ==
    \E r \in RunIds :
        /\ runs[r].queue0 = <<1, 2>>
        /\ runs[r].taken = <<1, 2>>
        /\ Len(runs[r].workers) = 1
        /\ results[1].status \in {"valid", "invalid", "error"}
        /\ results[2].status = "validating"

C25_FailuresDoNotAbort ==
    /\ [][ \A r \in RunIds : \A w \in WorkerIds(r) :
             Steps(r, w) =>
                LET wk == runs[r].workers[w]
                    wk2 == runs'[r].workers[w]
                IN /\ wk2.pc # "crashed"
                   /\ wk2.pc = "exit" => runs[r].queue = << >>
                   /\ (InFlight(wk) /\ results'[wk.i].status \in {"invalid", "error"})
                         => wk2.pc = "delay" ]_vars
    /\ \A r \in 1..MaxRuns :
          (/\ r \in RunIds
           /\ HasLive(runs[r])
           /\ runs[r].queue # << >>
           /\ \E n \in 1..Len(runs[r].taken) :
                 results[runs[r].taken[n]].status \in {"invalid", "error"})
          ~> (/\ r \in RunIds
              /\ runs[r].queue0 # << >>
              /\ runs[r].queue = << >>
              /\ \A n \in 1..Len(runs[r].queue0) :
                    results[runs[r].queue0[n]].status \in {"valid", "invalid", "error"})

\* index 1 ended as error, index 2 as invalid after it, both handled by the
\* same single worker, which is still in the run
C25_Witness ==
    \E r \in RunIds :
        /\ Len(runs[r].workers) = 1
        /\ runs[r].taken = <<1, 2>>
        /\ runs[r].workers[1].pc = "delay"
        /\ results[1].status = "error"
        /\ results[2].status = "invalid"

\* C26: once the load effect has run on a saved table, no entry of the table
\* is validating: an entry saved as validating is pending, with its key,
\* models and message as saved, and every other entry is as it was saved.
C26_LoadNormalizes ==
    results # << >> =>
        /\ Len(results) = Len(saved.table)
        /\ \A n \in 1..Len(results) :
              /\ results[n].status # "validating"
              /\ IF saved.table[n].status = "validating"
                 THEN /\ results[n].status = "pending"
                      /\ results[n].key = saved.table[n].key
                      /\ results[n].models = saved.table[n].models
                      /\ results[n].errorMsg = saved.table[n].errorMsg
                 ELSE results[n] = saved.table[n]

\* a table saved with a validating first entry and a valid second one has
\* been loaded
C26_Witness ==
    /\ Len(results) = 2
    /\ saved.ok
    /\ saved.table[1].status = "validating"
    /\ saved.table[2].status = "valid"
    /\ results[1].status = "pending"
    /\ results[2].status = "valid"

\* C27: in every state, whatever sequence of Starts (and of anything else)
\* led to it, the credentials of the table's entries are pairwise different.
C27_TableKeysDistinct ==
    \A m \in 1..Len(results) : \A n \in 1..Len(results) :
        m # n => results[m].key # results[n].key

\* a second Start has rebuilt a table of one entry as a table of two, while
\* a worker of the first run is still alive
C27_Witness ==
    /\ Len(runs) = 2
    /\ HasLive(runs[1])
    /\ Len(runs[1].uniqueKeys) = 1
    /\ Len(runs[2].uniqueKeys) = 2
    /\ Len(results) = 2
    /\ results[1].key # results[2].key

\* C28: a step that is handleValidate, called while idle on a text in which
\* the pattern finds no token, changes nothing: the table, the shown status,
\* statusRef and the concurrency are as before, and no run and no worker is
\* added.
C28_StartNoTokenNoOp ==
    [][ \A text \in InputTexts :
          (MatchAll(text) = << >> /\ (Start(text) \/ StartNoKeys(text))) =>
              /\ results' = results
              /\ status' = status
              /\ statusRef' = statusRef
              /\ concurrencyLimit' = concurrencyLimit
              /\ runs' = runs ]_vars

\* idle with a table that holds an outcome, where Start can be pressed on a
\* text without a token
C28_Witness ==
    /\ status = "idle"
    /\ Len(runs) < MaxRuns
    /\ Len(results) = 2
    /\ results[1].status = "valid"
    /\ \E text \in InputTexts : MatchAll(text) = << >> /\ ENABLED StartNoKeys(text)

\* C29: whatever the file and the chunk size, the extractor's key sequence
\* holds no token twice, while it scans and when it returns; and neither does
\* the sequence the unchunked path makes of the same text.
C29_ExtractionDuplicateFree ==
    /\ \A m \in 1..Len(keys) : \A n \in 1..Len(keys) : m # n => keys[m] # keys[n]
    /\ xpc = "done" =>
          LET whole == Unique(MatchAll(file))
          IN \A m \in 1..Len(whole) : \A n \in 1..Len(whole) :
                 m # n => whole[m] # whole[n]

\* the extractor has returned one key for a file cut into several portions,
\* two of which held that token
C29_Witness ==
    /\ xpc = "done"
    /\ Len(keys) = 1
    /\ Len(scanned) > 1
    /\ \E m \in 1..Len(scanned) : \E n \in 1..Len(scanned) :
          /\ m # n
          /\ keys[1] \in SeqToSet(MatchAll(scanned[m]))
          /\ keys[1] \in SeqToSet(MatchAll(scanned[n]))

\* C30: one pool at a time: in the step in which a Start builds a queue and
\* starts its workers, no worker of an earlier run is alive, also when that
\* Start follows a Stop.
C30_OnePoolAtATime ==
    [][ Starts => \A r \in RunIds : ~HasLive(runs[r]) ]_vars

\* C31: when a worker's call ends and the worker writes to the entry at its
\* index (valid, invalid, error, or the revert to pending), the credential of
\* that entry is the one the worker sent, uniqueKeys[i] of its own run, also
\* when a later Start has rebuilt the table in the meantime.
C31_ResultBoundToCredential ==
    [][ \A r \in RunIds : \A w \in WorkerIds(r) :
          LET wk == runs[r].workers[w]
              wk2 == runs'[r].workers[w]
          IN (Steps(r, w) /\ InFlight(wk) /\ wk2.pc \in {"delay", "exit"}
                  /\ wk.i <= Len(results')) =>
                 results'[wk.i].key = runs[r].uniqueKeys[wk.i] ]_vars

\* C32: a worker never reaches for an entry the table does not have: when it
\* claims an index and when its call ends, its index is within the table, so
\* no worker fails on a missing entry, also after Clear or after a rebuild to
\* a shorter table that followed a Stop.
C32_WriteTargetsExistingEntry ==
    [][ \A r \in RunIds : \A w \in WorkerIds(r) :
          Steps(r, w) =>
              /\ runs'[r].workers[w].pc # "crashed"
              /\ InFlight(runs[r].workers[w]) => runs[r].workers[w].i <= Len(results)
              /\ InFlight(runs'[r].workers[w]) => runs'[r].workers[w].i <= Len(results') ]_vars

\* C33: the shown status is idle only when nothing is going on: no step ends
\* in a state that shows idle while an entry is validating, and in a step
\* taken while idle is shown no live run has an index shifted from its queue.
C33_IdleMeansQuiet ==
    [][ /\ status' = "idle" => Validating(results') = {}
        /\ status = "idle" =>
              \A r \in RunIds :
                  HasLive(runs[r]) => runs'[r].taken = runs[r].taken ]_vars

\* C34: the extractor hands every character of the file to the pattern once:
\* in every state the portions scanned so far, in order, followed by the
\* carried tail, are the part of the file read so far; and when the extractor
\* has returned, the tail is empty and the portions together are the file.
C34_ScansEachCharacterOnce ==
    LET upTo[n \in 0..Len(scanned)] ==
            IF n = 0 THEN << >> ELSE upTo[n - 1] \o scanned[n]
        read == IF offset < Len(file) THEN offset ELSE Len(file)
    IN /\ upTo[Len(scanned)] \o tail = SubSeq(file, 1, read)
       /\ xpc = "done" => (tail = << >> /\ upTo[Len(scanned)] = file)

\* two portions were cut at a newline and scanned, and a tail is carried into
\* the next chunk
C34_Witness ==
    /\ xpc = "loop"
    /\ Len(scanned) = 2
    /\ scanned[1] # << >>
    /\ scanned[2] # << >>
    /\ tail # << >>
    /\ offset < Len(file)

====
